---- MODULE Spec2Model ----
(***************************************************************************)
(* EAS Milan TOEIC availability monitor (eas_monitor.user.js).             *)
(*                                                                         *)
(* The userscript runs once per page load: it waits for the session rows   *)
(* (waitForDOM), runs one check cycle (runCheck), and then either alerts   *)
(* or schedules a page reload.  The host's timer table, the four timer     *)
(* handles, the closure counters of the tickers and the parts of the page  *)
(* the script writes (banner, details panel, title) are the state.         *)
(*                                                                         *)
(* Time is counted in units of 100 ms.  A timer fires no earlier than its  *)
(* delay.  The handlers are short and the event loop is otherwise idle, so *)
(* a due callback runs before more time passes; callbacks that are due at  *)
(* the same moment run in any order.  The reload of the page is not        *)
(* instantaneous: between window.location.reload() and the moment the old  *)
(* page is replaced, time passes and the old page's timers still fire.     *)
(* A JavaScript exception is the field `thrown` of the state record: an    *)
(* operator that models a function returns the record with thrown = TRUE   *)
(* at the statement that throws, and the caller's try/catch tests it.      *)
(* Exceptions are inputs of the check cycle, where the script's try blocks *)
(* expect them: `fail` names the step of runCheck's try block that throws  *)
(* (the parse, or the statement of renderBanner that fills the banner),    *)
(* `beepFail` the tone at which the audio code throws.                     *)
(***************************************************************************)
EXTENDS Integers, Sequences, FiniteSets, TLC

VARIABLES
    phase,            \* where the controller stands, see Phases
    attempts,         \* waitForDOM: attempts
    timers,           \* the host's table of pending timers
    nextId,           \* the handle the host gives to the next timer
    refreshTimerId,   \* 0 models null
    countdownId,
    elapsedId,
    tabFlashId,
    elapsedSec,       \* renderBanner: closure variable of the elapsed ticker
    remaining,        \* renderBanner: closure variable of the countdown ticker
    v,                \* flashTab: closure variable
    title,            \* document.title
    banners,          \* number of elements #eas-banner in the page
    bannerClass,      \* className of the banner: "sold-out" or "available"
    details,          \* number of elements #eas-details in the page
    elapsedText,      \* text of #eas-elapsed, as << minutes, seconds >>
    cdText,           \* number shown in #eas-cd
    cdPausa,          \* #eas-cd shows PAUSA instead of a number
    tones,            \* oscillators started by playBeep
    audioWarn,        \* playBeep logged "Audio fallito"
    errLogged,        \* runCheck logged "ERRORE"
    nSessions,        \* runCheck: sessions.length of this load's cycle, -1 before it
    nAvailable,       \* runCheck: available.length of this load's cycle, -1 before it
    cycles,           \* calls of runCheck since the page was loaded
    queries,          \* calls of check since the page was loaded
    rowsSeen,         \* check: an attempt of this load found rows.length > 0
    refreshAge,       \* time since the pending re-check timer was set
    reloadRequested,  \* window.location.reload() was called
    unloadWait,       \* time since window.location.reload() was first called
    renders,          \* calls of renderBanner since the page was loaded
    beepCalls,        \* calls of playBeep since the page was loaded
    flashCalls,       \* calls of flashTab since the page was loaded
    pIn,              \* rows given to parseAllSessions when it is run on its own
    pOut,             \* the records it returned
    pDone,            \* it has returned
    ENABLE_SOUND,
    ENABLE_TAB_FLASH

vars == << phase, attempts, timers, nextId, refreshTimerId, countdownId,
           elapsedId, tabFlashId, elapsedSec, remaining, v, title, banners,
           bannerClass, details, elapsedText, cdText, cdPausa, tones,
           audioWarn, errLogged, nSessions, nAvailable, cycles, queries,
           rowsSeen, refreshAge, reloadRequested, unloadWait, renders,
           beepCalls, flashCalls, pIn, pOut, pDone, ENABLE_SOUND,
           ENABLE_TAB_FLASH >>

----------------------------------------------------------------------------
\* Configuration and bounds

REFRESH_INTERVAL_SEC == 5
SOUND_REPEAT == 5
maxAttempts == 20

\* timer delays of the source, in units of 100 ms
RefreshDelay == (REFRESH_INTERVAL_SEC * 1000) \div 100
TickerPeriod == 1000 \div 100
FlashPeriod  == 800 \div 100
RetryDelay   == 500 \div 100

MaxRows == 2          \* rows of a snapshot
MaxElapsedSec == 7    \* seconds a page is followed after its banner was rendered
MaxOverrun == 2       \* ticks of the countdown below zero that are followed
MaxRenders == 3       \* calls of renderBanner on one page, when it is run on its own
MaxPad == 1           \* characters around the marker in the notes given to the parser
MaxUnloadWait == 10   \* time the old page is followed after a reload was requested

\* README "Configurazione": the flag the operator is told to set to disable
\* the visual banner, here set to false. The script declares no such constant
\* (lines 25-30) and renderBanner reads none.
ENABLE_BANNER == FALSE

\* "Polling" is the check cycle itself: it is passed through inside runCheck
Phases == {"Load", "Bootstrapping", "Waiting", "Alerting", "Degraded", "Failed"}

----------------------------------------------------------------------------
\* The page's rows and parseAllSessions

\* text of a note, as a sequence of characters
N_EMPTY    == << >>
N_ESAURITO == << "E", "s", "a", "u", "r", "i", "t", "o", " " >>
MARKER     == << "e", "s", "a", "u", "r", "i", "t", "o" >>

NoteTexts == { N_ESAURITO }

\* a row: whether it has a div.tabellanote and its text, whether
\* div.tabellaacquista holds a link
Rows ==
    { [hasNote |-> TRUE, note |-> n, hasBuy |-> b] : n \in NoteTexts, b \in BOOLEAN }
    \cup { [hasNote |-> FALSE, note |-> N_EMPTY, hasBuy |-> b] : b \in BOOLEAN }

Snapshots == UNION { [1..n -> Rows] : n \in 0..MaxRows }

IsSpace(c) == c = " "

RECURSIVE TrimLeft(_)
TrimLeft(s) ==
    IF Len(s) > 0 /\ IsSpace(Head(s)) THEN TrimLeft(Tail(s)) ELSE s

RECURSIVE TrimRight(_)
TrimRight(s) ==
    IF Len(s) > 0 /\ IsSpace(s[Len(s)]) THEN TrimRight(SubSeq(s, 1, Len(s) - 1)) ELSE s

Trim(s) == TrimRight(TrimLeft(s))

LowerChar(c) ==
    CASE c = "E" -> "e" [] c = "S" -> "s" [] c = "A" -> "a" [] c = "U" -> "u"
      [] c = "R" -> "r" [] c = "I" -> "i" [] c = "T" -> "t" [] c = "O" -> "o"
      [] OTHER -> c

toLowerCase(s) == [i \in 1..Len(s) |-> LowerChar(s[i])]

\* String.prototype.indexOf: the first 0-based position of pat in s, -1 if none
indexOf(s, pat) ==
    LET hits == { i \in 0..(Len(s) - Len(pat)) : SubSeq(s, i + 1, i + Len(pat)) = pat }
    IN IF hits = {} THEN -1 ELSE CHOOSE i \in hits : \A j \in hits : i <= j

\* the marker is looked for without lowering the note first
parseRow_caseSensitive(row) ==
    LET note == IF row.hasNote THEN Trim(row.note) ELSE << >>
        hasBuyLink == row.hasBuy
        isSoldOut == indexOf(note, MARKER) # -1
        isAvailable == ~isSoldOut \/ hasBuyLink
    IN [note |-> note, hasBuyLink |-> hasBuyLink,
        isSoldOut |-> isSoldOut, isAvailable |-> isAvailable]

\* lines 62-85: one turn of the loop
parseRow(row) ==
    LET note == IF row.hasNote THEN Trim(row.note) ELSE << >>
        hasBuyLink == row.hasBuy
        isSoldOut == indexOf(toLowerCase(note), MARKER) # -1
        isAvailable == ~isSoldOut \/ hasBuyLink
    IN [note |-> note, hasBuyLink |-> hasBuyLink,
        isSoldOut |-> isSoldOut, isAvailable |-> isAvailable]

parseAllSessions(rows) == [i \in 1..Len(rows) |-> parseRow(rows[i])]

IsAvail(session) == session.isAvailable

\* The notes parseAllSessions is given when it is run on its own: the marker
\* in every mix of upper and lower case, and texts that miss it by little,
\* each with up to MaxPad characters before and after

UpperChar(c) ==
    CASE c = "e" -> "E" [] c = "s" -> "S" [] c = "a" -> "A" [] c = "u" -> "U"
      [] c = "r" -> "R" [] c = "i" -> "I" [] c = "t" -> "T" [] c = "o" -> "O"
      [] OTHER -> c

CaseVariants ==
    { [i \in 1..Len(MARKER) |-> IF i \in U THEN UpperChar(MARKER[i]) ELSE MARKER[i]] :
        U \in SUBSET (1..Len(MARKER)) }

NearMisses ==
    { << >>,
      << "e", "s", "a", "u", "r", "i", "t" >>,
      << "e", "s", "a", "u", "r", "i", "t", "a" >>,
      << "E", "S", "A", "U", "R", "I", " ", "T", "O" >>,
      << "s", "a", "u", "r", "i", "t", "o" >> }

PadChars == { " ", "x" }

Pads == UNION { [1..n -> PadChars] : n \in 0..MaxPad }

ParseNotes == { p \o c \o q : p \in Pads, c \in CaseVariants \cup NearMisses, q \in Pads }

ParseRows ==
    { [hasNote |-> TRUE, note |-> n, hasBuy |-> b] : n \in ParseNotes, b \in BOOLEAN }
    \cup { [hasNote |-> FALSE, note |-> N_EMPTY, hasBuy |-> b] : b \in BOOLEAN }

ParseInputs ==
    { << >> } \cup { << r >> : r \in ParseRows }
              \cup { << q, r >> : q \in Rows, r \in ParseRows }

----------------------------------------------------------------------------
\* The state as one record, so that a function of the script is an operator
\* from records to records

St ==
    [ phase |-> phase, attempts |-> attempts, timers |-> timers,
      nextId |-> nextId, refreshTimerId |-> refreshTimerId,
      countdownId |-> countdownId, elapsedId |-> elapsedId,
      tabFlashId |-> tabFlashId, elapsedSec |-> elapsedSec,
      remaining |-> remaining, v |-> v, title |-> title, banners |-> banners,
      bannerClass |-> bannerClass, details |-> details,
      elapsedText |-> elapsedText, cdText |-> cdText, cdPausa |-> cdPausa,
      tones |-> tones, audioWarn |-> audioWarn, errLogged |-> errLogged,
      nSessions |-> nSessions, nAvailable |-> nAvailable, cycles |-> cycles,
      queries |-> queries, rowsSeen |-> rowsSeen, refreshAge |-> refreshAge,
      reloadRequested |-> reloadRequested, unloadWait |-> unloadWait,
      renders |-> renders, beepCalls |-> beepCalls, flashCalls |-> flashCalls,
      thrown |-> FALSE ]

Set(s) ==
    /\ phase' = s.phase /\ attempts' = s.attempts
    /\ timers' = s.timers /\ nextId' = s.nextId
    /\ refreshTimerId' = s.refreshTimerId /\ countdownId' = s.countdownId
    /\ elapsedId' = s.elapsedId /\ tabFlashId' = s.tabFlashId
    /\ elapsedSec' = s.elapsedSec /\ remaining' = s.remaining /\ v' = s.v
    /\ title' = s.title /\ banners' = s.banners /\ bannerClass' = s.bannerClass
    /\ details' = s.details /\ elapsedText' = s.elapsedText
    /\ cdText' = s.cdText /\ cdPausa' = s.cdPausa /\ tones' = s.tones
    /\ audioWarn' = s.audioWarn /\ errLogged' = s.errLogged
    /\ nSessions' = s.nSessions /\ nAvailable' = s.nAvailable
    /\ cycles' = s.cycles /\ queries' = s.queries /\ rowsSeen' = s.rowsSeen
    /\ refreshAge' = s.refreshAge /\ reloadRequested' = s.reloadRequested
    /\ unloadWait' = s.unloadWait /\ renders' = s.renders
    /\ beepCalls' = s.beepCalls /\ flashCalls' = s.flashCalls
    /\ UNCHANGED << pIn, pOut, pDone, ENABLE_SOUND, ENABLE_TAB_FLASH >>

\* the page as a fresh load leaves it, before the script runs
Fresh ==
    [ phase |-> "Load", attempts |-> 0, timers |-> {},
      nextId |-> 1, refreshTimerId |-> 0, countdownId |-> 0, elapsedId |-> 0,
      tabFlashId |-> 0, elapsedSec |-> 0, remaining |-> 0, v |-> TRUE,
      title |-> "original", banners |-> 0, bannerClass |-> "none",
      details |-> 0, elapsedText |-> << 0, 0 >>, cdText |-> 0, cdPausa |-> FALSE,
      tones |-> 0, audioWarn |-> FALSE, errLogged |-> FALSE,
      nSessions |-> -1, nAvailable |-> -1, cycles |-> 0, queries |-> 0,
      rowsSeen |-> FALSE,
      refreshAge |-> 0, reloadRequested |-> FALSE, unloadWait |-> 0,
      renders |-> 0, beepCalls |-> 0, flashCalls |-> 0,
      thrown |-> FALSE ]

----------------------------------------------------------------------------
\* The host's timers

\* setTimeout / setInterval: the new timer gets the handle s.nextId
setTimer(s, kind, delay) ==
    [s EXCEPT !.timers = @ \cup { [id |-> s.nextId, kind |-> kind, rem |-> delay] },
              !.nextId = @ + 1]

\* clearTimeout / clearInterval
clearTimer(s, id) == [s EXCEPT !.timers = { t \in @ : t.id # id }]

Pending(kind) == { t \in timers : t.kind = kind }
Due(kind) == { t \in timers : t.kind = kind /\ t.rem = 0 }

----------------------------------------------------------------------------
\* renderBanner

\* the previous banner is left in place
removeOld_keepBanner(s) ==
    [s EXCEPT !.details = IF @ > 0 THEN @ - 1 ELSE 0]

\* lines 115-118: remove the previous banner and the previous details panel
removeOld(s) ==
    [s EXCEPT !.banners = IF @ > 0 THEN @ - 1 ELSE 0,
              !.details = IF @ > 0 THEN @ - 1 ELSE 0]

\* lines 120-140: build the banner and insert it as the first child of body
insertBanner(s, availCount) ==
    [s EXCEPT !.banners = @ + 1,
              !.bannerClass = IF availCount = 0 THEN "sold-out" ELSE "available",
              !.elapsedText = << 0, 0 >>,
              !.cdText = REFRESH_INTERVAL_SEC,
              !.cdPausa = FALSE]

\* lines 150-157: restart the elapsed ticker
startElapsed(s) ==
    LET s1 == IF s.elapsedId # 0 THEN clearTimer(s, s.elapsedId) ELSE s
        s2 == setTimer([s1 EXCEPT !.elapsedSec = 0], "elapsed", TickerPeriod)
    IN [s2 EXCEPT !.elapsedId = s1.nextId]

\* the countdown ticker is started whatever the banner says
startCountdown_always(s, allSoldOut) ==
    LET s1 == IF s.countdownId # 0 THEN clearTimer(s, s.countdownId) ELSE s
        s2 == [s1 EXCEPT !.remaining = REFRESH_INTERVAL_SEC]
    IN [setTimer(s2, "countdown", TickerPeriod) EXCEPT !.countdownId = s2.nextId]

\* lines 159-175: the countdown ticker runs only under a sold-out banner
startCountdown(s, allSoldOut) ==
    LET s1 == IF s.countdownId # 0 THEN clearTimer(s, s.countdownId) ELSE s
        s2 == [s1 EXCEPT !.remaining = REFRESH_INTERVAL_SEC]
    IN IF allSoldOut
       THEN [setTimer(s2, "countdown", TickerPeriod) EXCEPT !.countdownId = s2.nextId]
       ELSE [s2 EXCEPT !.cdPausa = s2.banners > 0]

\* lines 177-192: the details panel, after the banner
insertDetails(s, allSoldOut, availSessions) ==
    IF ~allSoldOut /\ Len(availSessions) > 0
    THEN [s EXCEPT !.details = @ + 1]
    ELSE s

\* fail = "render": the statement that fills the banner (line 130) throws,
\* after the old elements were removed and before anything is inserted
renderBanner(s, total, soldOut, availCount, availSessions, fail) ==
    LET allSoldOut == availCount = 0
        s1 == removeOld([s EXCEPT !.renders = @ + 1])
    IN IF fail = "render"
       THEN [s1 EXCEPT !.thrown = TRUE]
       ELSE insertDetails(
                startCountdown(startElapsed(insertBanner(s1, availCount)), allSoldOut),
                allSoldOut, availSessions)

\* the click listener forgets the elapsed ticker
onRefreshClick_keepElapsed(s) ==
    LET s1 == IF s.refreshTimerId # 0 THEN clearTimer(s, s.refreshTimerId) ELSE s
        s2 == IF s1.countdownId # 0 THEN clearTimer(s1, s1.countdownId) ELSE s1
    IN [s2 EXCEPT !.reloadRequested = TRUE]

\* the click listener forgets the re-check timer
onRefreshClick_keepRefresh(s) ==
    LET s2 == IF s.countdownId # 0 THEN clearTimer(s, s.countdownId) ELSE s
        s3 == IF s2.elapsedId # 0 THEN clearTimer(s2, s2.elapsedId) ELSE s2
    IN [s3 EXCEPT !.reloadRequested = TRUE]

\* lines 143-148: the click listener of #eas-btn
onRefreshClick(s) ==
    LET s1 == IF s.refreshTimerId # 0 THEN clearTimer(s, s.refreshTimerId) ELSE s
        s2 == IF s1.countdownId # 0 THEN clearTimer(s1, s1.countdownId) ELSE s1
        s3 == IF s2.elapsedId # 0 THEN clearTimer(s2, s2.elapsedId) ELSE s2
    IN [s3 EXCEPT !.reloadRequested = TRUE]

----------------------------------------------------------------------------
\* playBeep and flashTab

\* beepFail = -1: creating the AudioContext throws; beepFail = i in
\* 0..SOUND_REPEAT-1: the i-th tone throws before it is started;
\* beepFail = SOUND_REPEAT: nothing throws
BeepFails == -1..SOUND_REPEAT

RECURSIVE toneLoop(_, _, _)
toneLoop(s, i, beepFail) ==
    IF i >= SOUND_REPEAT THEN s
    ELSE IF beepFail = i THEN [s EXCEPT !.thrown = TRUE]
    ELSE toneLoop([s EXCEPT !.tones = @ + 1], i + 1, beepFail)

\* the catch logs and throws the exception again
playBeep_rethrow(s, beepFail) ==
    LET s0 == [s EXCEPT !.beepCalls = @ + 1]
    IN IF ~ENABLE_SOUND THEN s0
       ELSE LET r == IF beepFail = -1 THEN [s0 EXCEPT !.thrown = TRUE]
                     ELSE toneLoop(s0, 0, beepFail)
            IN IF r.thrown THEN [r EXCEPT !.audioWarn = TRUE] ELSE r

playBeep(s, beepFail) ==
    LET s0 == [s EXCEPT !.beepCalls = @ + 1]
    IN IF ~ENABLE_SOUND THEN s0
       ELSE LET r == IF beepFail = -1 THEN [s0 EXCEPT !.thrown = TRUE]
                     ELSE toneLoop(s0, 0, beepFail)
            IN IF r.thrown
               THEN [r EXCEPT !.thrown = FALSE, !.audioWarn = TRUE]   \* catch (e)
               ELSE r

flashTab(s) ==
    LET s0 == [s EXCEPT !.flashCalls = @ + 1]
    IN IF ~ENABLE_TAB_FLASH THEN s0
       ELSE LET s1 == IF s0.tabFlashId # 0 THEN clearTimer(s0, s0.tabFlashId) ELSE s0
                s2 == setTimer([s1 EXCEPT !.v = TRUE], "flash", FlashPeriod)
            IN [s2 EXCEPT !.tabFlashId = s1.nextId]

----------------------------------------------------------------------------
\* runCheck

FailPoints == {"none", "parse", "render"}

\* lines 253-261
alertBranch(s, beepFail) ==
    LET s1 == IF s.refreshTimerId # 0
              THEN [clearTimer(s, s.refreshTimerId) EXCEPT !.refreshTimerId = 0]
              ELSE s
        s2 == playBeep([s1 EXCEPT !.phase = "Alerting"], beepFail)
    IN IF s2.thrown THEN s2 ELSE flashTab(s2)

\* lines 262-267
waitBranch(s) ==
    LET s1 == setTimer([s EXCEPT !.phase = "Waiting"], "refresh", RefreshDelay)
    IN [s1 EXCEPT !.refreshTimerId = s.nextId, !.refreshAge = 0]

\* lines 268-270: the catch logs and does nothing else
catchCycle(s) ==
    [s EXCEPT !.thrown = FALSE, !.errLogged = TRUE,
              !.phase = IF @ \in {"Alerting", "Waiting"} THEN @ ELSE "Failed"]

\* rows: the div.riga_tabella elements the page exposes when the cycle runs
runCheck(s, rows, fail, beepFail) ==
    LET s0 == [s EXCEPT !.cycles = @ + 1, !.phase = "Polling"]
    IN IF fail = "parse" THEN catchCycle(s0)
       ELSE LET sessions == parseAllSessions(rows)
                available == SelectSeq(sessions, IsAvail)
                soldOut == Len(sessions) - Len(available)
                s1 == [s0 EXCEPT !.nSessions = Len(sessions),
                                 !.nAvailable = Len(available)]
                s2 == renderBanner(s1, Len(sessions), soldOut, Len(available),
                                   available, fail)
                s3 == IF s2.thrown THEN s2
                      ELSE IF Len(available) > 0 THEN alertBranch(s2, beepFail)
                      ELSE waitBranch(s2)
            IN IF s3.thrown THEN catchCycle(s3) ELSE s3

----------------------------------------------------------------------------
\* waitForDOM

\* the retry is scheduled after a successful attempt too (a missing else)
check_retryAlso(s, snap, fail, beepFail) ==
    LET s1 == [s EXCEPT !.attempts = @ + 1, !.queries = @ + 1,
                        !.rowsSeen = @ \/ Len(snap) > 0]
        s2 == IF Len(snap) > 0 THEN runCheck(s1, snap, fail, beepFail) ELSE s1
    IN IF s2.attempts < maxAttempts
       THEN setTimer(IF Len(snap) > 0 THEN s2 ELSE [s2 EXCEPT !.phase = "Bootstrapping"],
                     "check", RetryDelay)
       ELSE IF Len(snap) > 0 THEN s2
       ELSE renderBanner([s2 EXCEPT !.phase = "Degraded"], 0, 0, 0, << >>, "none")

\* the exhausted bootstrap runs a check cycle instead of rendering the banner
check_degradedCycle(s, snap, fail, beepFail) ==
    LET s1 == [s EXCEPT !.attempts = @ + 1, !.queries = @ + 1,
                        !.rowsSeen = @ \/ Len(snap) > 0]
    IN IF Len(snap) > 0 THEN runCheck(s1, snap, fail, beepFail)
       ELSE IF s1.attempts < maxAttempts
       THEN setTimer([s1 EXCEPT !.phase = "Bootstrapping"], "check", RetryDelay)
       ELSE runCheck([s1 EXCEPT !.phase = "Degraded"], snap, "none", beepFail)

\* the attempt budget is compared with <= instead of <
check_offByOne(s, snap, fail, beepFail) ==
    LET s1 == [s EXCEPT !.attempts = @ + 1, !.queries = @ + 1,
                        !.rowsSeen = @ \/ Len(snap) > 0]
    IN IF Len(snap) > 0 THEN runCheck(s1, snap, fail, beepFail)
       ELSE IF s1.attempts <= maxAttempts
       THEN setTimer([s1 EXCEPT !.phase = "Bootstrapping"], "check", RetryDelay)
       ELSE renderBanner([s1 EXCEPT !.phase = "Degraded"], 0, 0, 0, << >>, "none")

\* lines 280-295: one attempt; snap is what querySelectorAll returns now
check(s, snap, fail, beepFail) ==
    LET s1 == [s EXCEPT !.attempts = @ + 1, !.queries = @ + 1,
                        !.rowsSeen = @ \/ Len(snap) > 0]
    IN IF Len(snap) > 0 THEN runCheck(s1, snap, fail, beepFail)
       ELSE IF s1.attempts < maxAttempts
       THEN setTimer([s1 EXCEPT !.phase = "Bootstrapping"], "check", RetryDelay)
       ELSE renderBanner([s1 EXCEPT !.phase = "Degraded"], 0, 0, 0, << >>, "none")

----------------------------------------------------------------------------
\* Timer callbacks

\* formatElapsed: the minutes and the seconds of the text
formatElapsed(seconds) == << seconds \div 60, seconds % 60 >>

\* an interval timer that fired is due again one period later
rearm(s, t, period) ==
    [s EXCEPT !.timers = (@ \ {t}) \cup { [t EXCEPT !.rem = period] }]

\* lines 153-157
onElapsed(s) ==
    [s EXCEPT !.elapsedSec = @ + 1,
              !.elapsedText = IF s.banners > 0 THEN formatElapsed(s.elapsedSec + 1) ELSE @]

\* the callback counts two seconds per tick
onCountdown_twice(s) ==
    [s EXCEPT !.remaining = @ - 2,
              !.cdText = IF s.banners > 0 THEN s.remaining - 2 ELSE @]

\* lines 164-171
onCountdown(s) ==
    [s EXCEPT !.remaining = @ - 1,
              !.cdText = IF s.banners > 0 THEN s.remaining - 1 ELSE @]

\* the callback shows the alert string on every tick
onFlash_noToggle(s) ==
    [s EXCEPT !.title = "alert"]

\* lines 224-227
onFlash(s) ==
    [s EXCEPT !.title = IF s.v THEN "alert" ELSE "original",
              !.v = ~s.v]

\* lines 264-266
onRefreshTimer(s) == [s EXCEPT !.reloadRequested = TRUE]

----------------------------------------------------------------------------
\* Actions

TypeOK ==
    /\ phase \in Phases
    /\ attempts \in 0..maxAttempts
    /\ \A t \in timers : t.kind \in {"check", "refresh", "elapsed", "countdown", "flash"}
    /\ refreshAge \in 0..RefreshDelay
    /\ tones \in 0..SOUND_REPEAT
    /\ title \in {"original", "alert"}

\* the state of a page on which the script has not run yet
FreshPage ==
    /\ phase = Fresh.phase /\ attempts = Fresh.attempts
    /\ timers = Fresh.timers /\ nextId = Fresh.nextId
    /\ refreshTimerId = Fresh.refreshTimerId /\ countdownId = Fresh.countdownId
    /\ elapsedId = Fresh.elapsedId /\ tabFlashId = Fresh.tabFlashId
    /\ elapsedSec = Fresh.elapsedSec /\ remaining = Fresh.remaining /\ v = Fresh.v
    /\ title = Fresh.title /\ banners = Fresh.banners
    /\ bannerClass = Fresh.bannerClass /\ details = Fresh.details
    /\ elapsedText = Fresh.elapsedText /\ cdText = Fresh.cdText
    /\ cdPausa = Fresh.cdPausa /\ tones = Fresh.tones
    /\ audioWarn = Fresh.audioWarn /\ errLogged = Fresh.errLogged
    /\ nSessions = Fresh.nSessions /\ nAvailable = Fresh.nAvailable
    /\ cycles = Fresh.cycles /\ queries = Fresh.queries
    /\ rowsSeen = Fresh.rowsSeen
    /\ refreshAge = Fresh.refreshAge /\ reloadRequested = Fresh.reloadRequested
    /\ unloadWait = Fresh.unloadWait /\ renders = Fresh.renders
    /\ beepCalls = Fresh.beepCalls /\ flashCalls = Fresh.flashCalls

Init ==
    /\ FreshPage
    /\ pIn = << >> /\ pOut = << >> /\ pDone = FALSE
    /\ ENABLE_SOUND \in BOOLEAN
    /\ ENABLE_TAB_FLASH \in BOOLEAN

\* lines 300-305: the script body, run once when the page has loaded
Main ==
    /\ phase = "Load"
    /\ \E snap \in Snapshots, fail \in FailPoints, beepFail \in BeepFails :
          Set(check(St, snap, fail, beepFail))

\* line 289: the retry timer fires
BootRetry ==
    \E t \in Due("check") :
        \E snap \in Snapshots, fail \in FailPoints, beepFail \in BeepFails :
            Set(check(clearTimer(St, t.id), snap, fail, beepFail))

\* lines 264-266: the re-check timer fires
RefreshFire ==
    \E t \in Due("refresh") : Set(onRefreshTimer(clearTimer(St, t.id)))

ElapsedTick ==
    \E t \in Due("elapsed") :
        /\ elapsedSec < MaxElapsedSec
        /\ Set(onElapsed(rearm(St, t, TickerPeriod)))

CountdownTick ==
    \E t \in Due("countdown") :
        /\ remaining > -MaxOverrun
        /\ Set(onCountdown(rearm(St, t, TickerPeriod)))

FlashTick ==
    \E t \in Due("flash") : Set(onFlash(rearm(St, t, FlashPeriod)))

\* the operator clicks #eas-btn, which exists while a banner does
ClickRefresh ==
    /\ banners > 0
    /\ Set(onRefreshClick(St))

\* the reload that was requested replaces the page: every timer, handle and
\* element of the old page is gone and the script will run again
Unload ==
    /\ reloadRequested
    /\ Set(Fresh)

\* time passes, up to the moment the next timer becomes due
Advance ==
    LET waiting == { t \in timers : t.rem > 0 }
    IN /\ waiting # {}
       /\ waiting = timers
       /\ LET dt == CHOOSE d \in { t.rem : t \in waiting } :
                        \A t \in waiting : d <= t.rem
          IN /\ reloadRequested => unloadWait + dt <= MaxUnloadWait
             /\ Set([St EXCEPT
                   !.timers = { [t EXCEPT !.rem = @ - dt] : t \in timers },
                   !.unloadWait = IF reloadRequested THEN @ + dt ELSE @,
                   !.refreshAge = IF Pending("refresh") # {}
                                  THEN @ + dt ELSE @])

Next ==
    \/ Main
    \/ BootRetry
    \/ RefreshFire
    \/ ElapsedTick
    \/ CountdownTick
    \/ FlashTick
    \/ ClickRefresh
    \/ Unload
    \/ Advance

Spec == Init /\ [][Next]_vars

\* renderBanner called again and again on one page, with any counts and any
\* list of available sessions, while the tickers it started run on; errLogged
\* tells whether the last call threw
RenderInit ==
    /\ FreshPage
    /\ ENABLE_SOUND = TRUE /\ ENABLE_TAB_FLASH = TRUE
    /\ pIn = << >> /\ pOut = << >> /\ pDone = FALSE

RenderCall ==
    /\ renders < MaxRenders
    /\ \E availCount \in 0..MaxRows, n \in 0..MaxRows, fail \in {"none", "render"} :
          LET available == [i \in 1..n |-> parseRow([hasNote |-> FALSE,
                                                     note |-> N_EMPTY,
                                                     hasBuy |-> TRUE])]
              r == renderBanner([St EXCEPT !.nAvailable = availCount],
                                MaxRows, MaxRows - availCount,
                                availCount, available, fail)
          IN Set([r EXCEPT !.errLogged = r.thrown, !.thrown = FALSE])

RenderNext ==
    \/ RenderCall
    \/ ElapsedTick
    \/ CountdownTick
    \/ Advance

RenderSpec == RenderInit /\ [][RenderNext]_vars

\* the variables of the monitor, which parseAllSessions neither reads nor
\* writes
pageVars ==
    << phase, attempts, timers, nextId, refreshTimerId, countdownId, elapsedId,
       tabFlashId, elapsedSec, remaining, v, title, banners, bannerClass,
       details, elapsedText, cdText, cdPausa, tones, audioWarn, errLogged,
       nSessions, nAvailable, cycles, queries, rowsSeen, refreshAge,
       reloadRequested, unloadWait, renders, beepCalls, flashCalls,
       ENABLE_SOUND, ENABLE_TAB_FLASH >>

\* parseAllSessions run on its own, on a page whose rows are pIn
ParseInit ==
    /\ FreshPage
    /\ ENABLE_SOUND = TRUE /\ ENABLE_TAB_FLASH = TRUE
    /\ pIn \in ParseInputs
    /\ pOut = << >>
    /\ pDone = FALSE

ParseStep ==
    /\ ~pDone
    /\ pOut' = parseAllSessions(pIn)
    /\ pDone' = TRUE
    /\ UNCHANGED << pageVars, pIn >>

ParseSpec == ParseInit /\ [][ParseStep]_vars

\* the timers fire and time passes: the host's event loop keeps running, and
\* the page the reload asked for does arrive
FairSpec ==
    /\ Spec
    /\ WF_vars(BootRetry)
    /\ WF_vars(Advance)

----------------------------------------------------------------------------
\* Properties

\* this load's check cycle classified at least one session as available
AlertCycle == cycles > 0 /\ nAvailable > 0

\* this load's check cycle classified no session as available
SoldOutCycle == cycles > 0 /\ nAvailable = 0

\* the alert is on the page
AlertShown == banners > 0 /\ bannerClass = "available"

\* C1: a check cycle that classifies at least one session as available ends
\* in Alerting, with the alert raised and no re-check timer pending, and
\* whenever the alert is active no re-check timer is pending.
C1_AvailableEndsInAlerting ==
    /\ AlertCycle => (phase = "Alerting" /\ AlertShown /\ Pending("refresh") = {})
    /\ phase = "Alerting" => Pending("refresh") = {}

\* C2: a check cycle that classifies zero sessions as available schedules
\* exactly one re-check timer, which stays pending until it fires or the
\* operator forces the reload, and it fires no earlier than the interval.
C2_SoldOutSchedulesOneTimer ==
    /\ (SoldOutCycle /\ ~reloadRequested) => Cardinality(Pending("refresh")) = 1
    /\ \A t \in Pending("refresh") : t.rem = 0 => refreshAge >= RefreshDelay

\* C3: a check cycle in which a failure was caught is treated as a sold-out
\* cycle: the monitor is in Waiting and a re-check timer is pending until it
\* fires or the operator forces the reload.
C3_FailedCycleReschedules ==
    (errLogged /\ ~reloadRequested) =>
        (phase = "Waiting" /\ Cardinality(Pending("refresh")) = 1)

\* C4: in an alerting cycle every enabled channel still executes when another
\* one fails: the tone sequence was attempted and the title flasher was
\* started whatever happened to the banner, and the banner is there whatever
\* happened to the tones.
C4_ChannelsIndependent ==
    AlertCycle =>
        /\ ENABLE_SOUND => (tones > 0 \/ audioWarn)
        /\ ENABLE_TAB_FLASH => tabFlashId # 0
        /\ audioWarn => AlertShown

\* C5: in an alerting cycle where the tone synthesis throws, the banner is
\* rendered in its available form, the title flasher is started (when it is
\* enabled), no re-check timer is pending, and the failure stays inside
\* playBeep: runCheck's catch does not see it.
C5_ToneFailureContained ==
    audioWarn =>
        /\ AlertCycle
        /\ phase = "Alerting"
        /\ banners = 1 /\ bannerClass = "available"
        /\ ENABLE_TAB_FLASH =>
              (tabFlashId # 0 /\ \E t \in Pending("flash") : t.id = tabFlashId)
        /\ Pending("refresh") = {}
        /\ ~errLogged

\* a tone failed in the middle of the sequence and the flasher has ticked since
C5_Witness ==
    /\ audioWarn /\ tones = 2
    /\ tabFlashId # 0 /\ title = "alert"

\* C6: at most one re-check timer is pending in every reachable state.
C6_AtMostOneRefreshTimer == Cardinality(Pending("refresh")) <= 1

\* a re-check timer is pending after a bootstrap that needed retries
C6_Witness ==
    /\ Cardinality(Pending("refresh")) = 1
    /\ attempts > 1
    /\ refreshAge > 0

C8_BootstrapBounded ==
    /\ queries <= maxAttempts /\ attempts = queries
    /\ Cardinality(Pending("check")) <= 1
    /\ \A t \in Pending("check") : t.rem <= RetryDelay /\ phase = "Bootstrapping"
    /\ cycles = (IF rowsSeen THEN 1 ELSE 0)
    /\ rowsSeen => Pending("check") = {}
    /\ phase = "Degraded" => (attempts = maxAttempts /\ cycles = 0)
    /\ phase = "Bootstrapping" =>
          (attempts < maxAttempts /\ cycles = 0 /\ Cardinality(Pending("check")) = 1)

\* C8: bootstrapping always terminates.
C8_BootstrapTerminates ==
    /\ []C8_BootstrapBounded
    /\ (phase = "Bootstrapping") ~> (phase # "Bootstrapping")

\* the last attempt of the budget found rows
C8_Witness ==
    /\ attempts = maxAttempts
    /\ rowsSeen /\ cycles = 1

\* C9 as stated: in every Alerting state none of the re-check timer, the
\* elapsed ticker and the countdown ticker is running.
C9_NoTimerInAlerting ==
    phase = "Alerting" =>
        (Pending("refresh") = {} /\ Pending("elapsed") = {} /\ Pending("countdown") = {})

\* C9 amended: in every Alerting state neither the re-check timer nor the
\* countdown ticker is running; the only ticker of the status display that
\* can run is the elapsed ticker the alert's own render started.
C9_NoRefreshNoCountdownInAlerting ==
    phase = "Alerting" =>
        /\ Pending("refresh") = {}
        /\ Pending("countdown") = {}
        /\ \A t \in Pending("elapsed") : t.id = elapsedId
        /\ cdPausa

\* the elapsed ticker has fired after the alert was raised
C9_Witness ==
    /\ phase = "Alerting" /\ AlertShown
    /\ elapsedSec > 0
    /\ ~reloadRequested

\* C10 as stated: the force-refresh click leaves no timer of the page pending.
C10_ClickCancelsEveryTimer ==
    [][ClickRefresh => (reloadRequested' /\ timers' = {})]_vars

\* C10 amended: the force-refresh click cancels the re-check timer, the
\* elapsed ticker and the countdown ticker before it requests the reload; the
\* only timer it can leave pending is the title flasher; and the page that
\* replaces the old one starts from the fresh state.
C10_ClickCancelsAllButFlasher ==
    [][ /\ ClickRefresh => (reloadRequested' /\ \A t \in timers' : t.kind = "flash")
        /\ Unload => (phase' = "Load" /\ timers' = {} /\ attempts' = 0 /\ banners' = 0)
      ]_vars

\* the flasher ticks on after a click in Alerting, the three others are gone
C10_Witness ==
    /\ phase = "Alerting" /\ reloadRequested
    /\ unloadWait > 0
    /\ Pending("flash") # {}
    /\ Pending("elapsed") = {}

\* C11 as stated: in every state other than Alerting in which the script has
\* started (Bootstrapping, between retries too, Waiting, the degraded state,
\* a failed cycle), the force-refresh button is there to be clicked.
C11_ClickAvailableOutsideAlerting ==
    phase \in {"Bootstrapping", "Waiting", "Degraded", "Failed"} => banners > 0

\* C11 amended: the force-refresh button exists exactly while a banner is on
\* the page: in Waiting, in the degraded state and in Alerting, but neither
\* while bootstrapping nor after a cycle that threw; and wherever it is
\* clicked it leaves no re-check timer, retry timer, elapsed ticker or
\* countdown ticker pending and requests the reload.
C11_ClickAvailableWithBanner ==
    /\ [](/\ phase \in {"Waiting", "Degraded", "Alerting"} => banners = 1
          /\ phase \in {"Load", "Bootstrapping", "Failed"} => banners = 0)
    /\ [][ClickRefresh =>
            /\ reloadRequested'
            /\ { t \in timers' : t.kind \in {"refresh", "check", "elapsed",
                                              "countdown"} } = {}
            /\ phase' = phase
         ]_vars

\* the button was clicked in the degraded state, whose tickers are gone
C11_Witness ==
    /\ phase = "Degraded" /\ reloadRequested
    /\ banners = 1
    /\ timers = {}

\* C12: within one load playBeep is called at most once and flashTab at most
\* once, so that at most one tone sequence and one flasher are ever started,
\* both only by a cycle whose list of available sessions is not empty; and
\* the cycle that enters Alerting has called each of them exactly once.
C12_ChannelsOncePerAlert ==
    /\ beepCalls <= 1 /\ flashCalls <= 1
    /\ tones <= SOUND_REPEAT
    /\ Cardinality(Pending("flash")) <= 1
    /\ (beepCalls > 0 \/ flashCalls > 0 \/ tones > 0 \/ audioWarn
            \/ Pending("flash") # {}) => AlertCycle
    /\ phase = "Alerting" => (beepCalls = 1 /\ flashCalls = 1)

\* both channels ran in full, and the flasher has ticked since
C12_Witness ==
    /\ phase = "Alerting"
    /\ beepCalls = 1 /\ tones = SOUND_REPEAT
    /\ flashCalls = 1 /\ title = "alert"

\* C13: the monitor never stops polling on its own: as long as no session was
\* found available and the rows were not given up on, the next step towards a
\* new check cycle is under way: a bootstrap retry or the re-check timer is
\* pending, or the reload has been requested.
C13_PollingNeverStops ==
    (phase \notin {"Load", "Alerting", "Degraded"} /\ nAvailable <= 0) =>
        \/ Pending("check") # {}
        \/ Pending("refresh") # {}
        \/ reloadRequested

\* C14: each of the three channels is switched off by its own flag and by no
\* other: in an alerting cycle that did not throw, the banner is shown exactly
\* if ENABLE_BANNER, tones are attempted exactly if ENABLE_SOUND, the flasher
\* is started exactly if ENABLE_TAB_FLASH, and no re-check timer is pending
\* whatever the flags.
C14_EachChannelToggled ==
    (AlertCycle /\ ~errLogged) =>
        /\ AlertShown <=> ENABLE_BANNER
        /\ (tones > 0 \/ audioWarn) <=> ENABLE_SOUND
        /\ (tabFlashId # 0) <=> ENABLE_TAB_FLASH
        /\ Pending("refresh") = {}

\* the text holds the sold-out marker at some position, each letter in either
\* case
ContainsMarker(text) ==
    \E i \in 1..(Len(text) - Len(MARKER) + 1) :
        \A k \in 1..Len(MARKER) :
            text[i + k - 1] \in { MARKER[k], UpperChar(MARKER[k]) }

\* C15: parseAllSessions returns one record per row, and in every record
\* isAvailable = (~isSoldOut \/ hasBuyLink), hasBuyLink tells whether the row
\* has a purchase link, and isSoldOut is true exactly when the row's note
\* holds the marker in any letter case; so a sold-out row without a link is
\* never available and a sold-out row with a link always is.
C15_AvailabilityRule ==
    pDone =>
        /\ Len(pOut) = Len(pIn)
        /\ \A i \in 1..Len(pIn) :
              LET r == pOut[i]
                  raw == IF pIn[i].hasNote THEN pIn[i].note ELSE << >>
              IN /\ r.isAvailable = (~r.isSoldOut \/ r.hasBuyLink)
                 /\ r.hasBuyLink = pIn[i].hasBuy
                 /\ r.isSoldOut = ContainsMarker(raw)
                 /\ (ContainsMarker(raw) /\ ~pIn[i].hasBuy) => ~r.isAvailable
                 /\ (ContainsMarker(raw) /\ pIn[i].hasBuy) => r.isAvailable

\* two sold-out rows, the first without a link, the second with a link and
\* with the marker not in lower case
C15_Witness ==
    /\ pDone /\ Len(pOut) = 2
    /\ pOut[1].isSoldOut /\ ~pOut[1].hasBuyLink /\ ~pOut[1].isAvailable
    /\ pOut[2].isSoldOut /\ pOut[2].hasBuyLink /\ pOut[2].isAvailable
    /\ pOut[2].note # toLowerCase(pOut[2].note)

\* C16: once bootstrapping has ended, whether in a check cycle or by
\* exhaustion, and whatever failed, a status banner is on the page, and it
\* shows the alert if the cycle found an available session.
C16_BannerAfterBootstrap ==
    phase \notin {"Load", "Bootstrapping"} =>
        /\ banners = 1
        /\ AlertCycle => AlertShown

\* C17: however often renderBanner is called on a page, there is never more
\* than one banner nor more than one details panel; after a call that
\* returned there is exactly one banner, of the class of that call's count,
\* and a details panel is there only if that call's count of available
\* sessions was positive; and each ticker it starts runs once.
C17_RenderIdempotent ==
    /\ banners <= 1 /\ details <= 1
    /\ Cardinality(Pending("elapsed")) <= 1
    /\ Cardinality(Pending("countdown")) <= 1
    /\ (renders > 0 /\ ~errLogged) =>
          /\ banners = 1
          /\ bannerClass = (IF nAvailable = 0 THEN "sold-out" ELSE "available")
          /\ details = 1 => nAvailable > 0
          /\ Cardinality(Pending("elapsed")) = 1

\* a third call in succession rendered an alert with its details panel, and
\* its elapsed ticker has fired
C17_Witness ==
    /\ renders = MaxRenders /\ ~errLogged
    /\ banners = 1 /\ details = 1
    /\ elapsedSec > 0

\* C18: at most one flasher interval is ever pending, only in Alerting and
\* with the period of 800 ms; it is started with the original title shown,
\* every tick of it changes the title to the other of the two strings, the
\* first one to the alert string; and once pending it stays pending through
\* every step, the force-refresh click included, until the reload replaces
\* the page.
C18_FlasherAlternates ==
    /\ [](/\ Cardinality(Pending("flash")) <= 1
          /\ \A t \in Pending("flash") :
                t.id = tabFlashId /\ t.rem <= FlashPeriod /\ phase = "Alerting"
          /\ Pending("flash") = {} => title = "original")
    /\ [][ /\ (Pending("flash") = {} /\ Pending("flash")' # {}) =>
                 (title' = "original" /\ \A t \in Pending("flash")' : t.rem = FlashPeriod)
           /\ FlashTick =>
                 /\ title' = (IF title = "original" THEN "alert" ELSE "original")
                 /\ \A t \in Pending("flash")' : t.rem = FlashPeriod
           /\ (~FlashTick /\ Pending("flash") # {} /\ Pending("flash")' # {}) =>
                 title' = title
           /\ (Pending("flash") # {} /\ Pending("flash")' = {}) =>
                 (reloadRequested /\ phase' = "Load")
         ]_vars

\* the flasher has ticked a third time, after the force-refresh click
C18_Witness ==
    /\ phase = "Alerting" /\ reloadRequested
    /\ elapsedSec >= 2
    /\ title = "alert"
    /\ \E t \in Pending("flash") : t.rem = FlashPeriod

\* C19: every render that returns shows the countdown at REFRESH_INTERVAL_SEC;
\* in Waiting one countdown ticker at most runs, each of its ticks lowers the
\* shown value by one and nothing else changes it, so that k seconds after
\* the cycle it shows the interval minus k; in Alerting no countdown ticker
\* runs, the place of the countdown reads PAUSA and no step changes it.
C19_CountdownTracksWaiting ==
    /\ [](/\ phase = "Waiting" =>
                /\ ~cdPausa /\ cdText = remaining
                /\ Cardinality(Pending("countdown")) <= 1
                /\ Pending("refresh") # {} =>
                      cdText = REFRESH_INTERVAL_SEC - (refreshAge \div TickerPeriod)
                               + (IF Due("countdown") # {} THEN 1 ELSE 0)
          /\ phase = "Alerting" => (Pending("countdown") = {} /\ cdPausa))
    /\ [][ /\ (renders' = renders + 1 /\ banners' = 1) =>
                 (cdText' = REFRESH_INTERVAL_SEC /\ remaining' = REFRESH_INTERVAL_SEC)
           /\ CountdownTick => cdText' = cdText - 1
           /\ (phase = "Waiting" /\ phase' = "Waiting" /\ ~CountdownTick) =>
                 cdText' = cdText
           /\ (phase = "Alerting" /\ phase' = "Alerting") =>
                 (cdText' = cdText /\ cdPausa' = cdPausa)
         ]_vars

\* three seconds into Waiting, after three ticks of the countdown
C19_Witness ==
    /\ phase = "Waiting" /\ ~reloadRequested
    /\ refreshAge = 3 * TickerPeriod
    /\ cdText = REFRESH_INTERVAL_SEC - 3

\* C20: as long as no reload has been requested, a countdown ticker is
\* pending only while a re-check timer is pending too, and the remaining time
\* the banner shows is never below zero, in the degraded state as anywhere.
C20_CountdownOnlyWithRecheck ==
    ~reloadRequested =>
        /\ Pending("countdown") # {} => Pending("refresh") # {}
        /\ cdText >= 0

\* the row has no note, or a note that does not hold the sold-out marker
Unmarked(row) == ~row.hasNote \/ ~ContainsMarker(row.note)

\* C21: a row without a note, or whose note does not hold the marker, is
\* classified as available though it has no purchase link, and a check cycle
\* whose page holds such a row, whatever its other rows, ends in Alerting
\* with the alert shown and no re-check timer pending.
C21_UnmarkedRowAlerts ==
    [][ cycles' = cycles + 1 =>
          \A snap \in Snapshots, fail \in FailPoints, beepFail \in BeepFails :
            ( /\ \E i \in 1..Len(snap) : Unmarked(snap[i]) /\ ~snap[i].hasBuy
              /\ \/ phase = "Load" /\ Set(check(St, snap, fail, beepFail))
                 \/ \E t \in Due("check") :
                       Set(check(clearTimer(St, t.id), snap, fail, beepFail)) )
            => /\ \A i \in 1..Len(snap) :
                    (Unmarked(snap[i]) /\ ~snap[i].hasBuy) =>
                        /\ parseAllSessions(snap)[i].isAvailable
                        /\ ~parseAllSessions(snap)[i].isSoldOut
               /\ phase' = "Alerting"
               /\ banners' = 1 /\ bannerClass' = "available"
               /\ { t \in timers' : t.kind = "refresh" } = {}
      ]_vars

====
